---- MODULE Spec2Model ----
(***************************************************************************)
(* Credential verification and session issuance of the SaaS starter API    *)
(* (src/main.py): hash_password / verify_password, POST /auth/register and *)
(* POST /auth/login, run by concurrent request workers against one         *)
(* document store (collections "authuser" and "session").                  *)
(*                                                                         *)
(* Every store call is one atomic step; the local computation between two  *)
(* store calls belongs to the step of the call that precedes it.  A store  *)
(* call may raise (connection lost, timeout), which FastAPI turns into a   *)
(* 500 response.                                                           *)
(***************************************************************************)
EXTENDS Integers, Sequences, FiniteSets, TLC

VARIABLES
    db,        \* the module-level database handle: DbHandle, or None when not configured
    authuser,  \* collection "authuser": documents in insertion order
    session,   \* collection "session": documents in insertion order
    pc,        \* per worker: the position of its request handler
    req,       \* per worker: the request it serves (payload)
    user,      \* per worker: local `user` (the AuthUser built, or the document found)
    sid,       \* per worker: the session key (`_id` in register, str(user["_id"]) in login)
    upd,       \* per worker: the {"$set": ...} document of its session upsert
    resp,      \* per worker: the HTTP response sent
    inflight   \* history, per worker: the register calls in flight when its request arrived

vars == <<db, authuser, session, pc, req, user, sid, upd, resp, inflight>>

\* ---------------------------------------------------------------- bounds
NumWorkers == 3
Workers == 1..NumWorkers

\* ------------------------------------------------------------- constants
SaltBytes == 16
Iterations == 200000
TokenBytes == 24
BlockSize == 64

None == [type |-> "None"]
DbHandle == [type |-> "Database"]

\* ------------------------------------------------------------ input sets
\* Passwords are strings, here sequences of code points: "pw", "pw\x00", "q".
\* One email address is enough: it is unknown to the store until a register
\* call inserts it, and overlapping register calls give it several users.
PwSecret == <<112, 119>>
PwSecretNul == <<112, 119, 0>>
PwOther == <<113>>
Passwords == {PwSecret, PwSecretNul, PwOther}
Emails == {"a@x.com"}
Names == {"Alice"}
RegisterPasswords == {PwSecret}

\* ------------------------------------------------- hashing (main.py 26-35)
\* str.encode(): UTF-8, one byte below 128, two bytes below 2048.
RECURSIVE Encode(_)
Encode(s) ==
    IF s = <<>> THEN <<>>
    ELSE LET c == Head(s) IN
         (IF c < 128 THEN <<c>>
          ELSE <<192 + (c \div 64), 128 + (c % 64)>>) \o Encode(Tail(s))

\* bytes.hex() and bytes.fromhex(): a hex string wraps the bytes it renders.
Hex(bytes) == [type |-> "hexstr", of |-> bytes]
FromHex(h) == h.of

\* HMAC's key schedule (RFC 2104): a key shorter than the block of the hash
\* is padded with zero bytes up to the block size.  Keys longer than the
\* block are hashed first; the passwords of this model are all shorter.
HmacKey(key) == key \o [i \in 1..(BlockSize - Len(key)) |-> 0]

\* hashlib.pbkdf2_hmac("sha256", password, salt, iterations): the derived
\* key is a function of the padded HMAC key, the salt and the iteration
\* count, and is taken to be collision free in these.
Pbkdf2Hmac(password, salt, iterations) ==
    [type |-> "dk", prf |-> "sha256", key |-> HmacKey(password),
     salt |-> salt, iterations |-> iterations]

\* secrets.token_hex(16): 16 random bytes in hex, fresh for every call; each
\* worker draws at most one salt, so the worker names its bytes.
token_hex(w) == Hex([i \in 1..SaltBytes |-> w])

\* hash_password(password, salt) with the salt given or already drawn.
hash_password(password, salt) ==
    <<salt, Hex(Pbkdf2Hmac(Encode(password), FromHex(salt), Iterations))>>

\* secrets.compare_digest(a, b)
compare_digest(a, b) == a = b

verify_password(password, salt, password_hash) ==
    LET computed == hash_password(password, salt)[2]
    IN  compare_digest(computed, password_hash)

\* ------------------------------------------------------- identifiers, tokens
\* The ObjectId the store generates for the document a worker inserts, and
\* its string form str(ObjectId).
ObjectId(n) == [type |-> "ObjectId", hex |-> n]
Str(id) == [type |-> "str", hex |-> id.hex]

\* secrets.token_urlsafe(24): an unguessable value, fresh for every call;
\* each worker issues at most one token, so the worker names it.
token_urlsafe(w) == [type |-> "token", nbytes |-> TokenBytes, nonce |-> w]

\* datetime.now(timezone.utc): the k-th reading of the clock by worker w.
\* Nothing in the handlers compares two timestamps, so a reading is kept as
\* the value that names it.
utcnow(w, k) == [type |-> "datetime", worker |-> w, reading |-> k]

\* ------------------------------------------------------ the document store
\* collection.find({"email": email}): the matching documents, in order.
Find(coll, email) == SelectSeq(coll, LAMBDA d : d.email = email)

\* collection.find_one({"email": email}): the first match, or None.
FindOne(coll, email) ==
    IF Find(coll, email) = <<>> THEN None ELSE Head(Find(coll, email))

\* The positions of the documents matching {"user_id": key}.
Matches(coll, key) == {i \in 1..Len(coll) : coll[i].user_id = key}

\* {"$set": fields} applied to one document.
SetFields(doc, fields) ==
    [f \in (DOMAIN doc) \cup (DOMAIN fields) |->
        IF f \in DOMAIN fields THEN fields[f] ELSE doc[f]]


\* Mutant of UpdateOneUpsert: the collection is replaced by the one document.
UpdateOneReplaceAll(coll, key, fields) ==
    <<SetFields([user_id |-> key], fields)>>

\* Mutant of UpdateOneUpsert: a new document is inserted even when one matches.
UpdateOneAlwaysInsert(coll, key, fields) ==
    Append(coll, SetFields([user_id |-> key], fields))

\* collection.update_one({"user_id": key}, {"$set": fields}, upsert=True):
\* the first matching document is updated; without a match the filter's
\* fields and the $set fields make a new document.
UpdateOneUpsert(coll, key, fields) ==
    IF Matches(coll, key) # {}
    THEN LET i == CHOOSE k \in Matches(coll, key) :
                      \A j \in Matches(coll, key) : k <= j
         IN  [coll EXCEPT ![i] = SetFields(coll[i], fields)]
    ELSE Append(coll, SetFields([user_id |-> key], fields))

\* database.create_document(collection_name, data): inserts the record under
\* a generated identifier and returns that identifier, in the string form
\* the session collection is keyed by.
InsertedDocument(data, w) == SetFields(data, [_id |-> ObjectId(w)])
CreateDocument(coll, data, w) == Append(coll, InsertedDocument(data, w))
CreateDocumentId(w) == Str(ObjectId(w))

\* ------------------------------------------------------ requests, responses
RegisterRequest(name, email, password) ==
    [kind |-> "register", name |-> name, email |-> email, password |-> password]
LoginRequest(email, password) ==
    [kind |-> "login", name |-> "", email |-> email, password |-> password]

IsRegister(w) == req[w].kind = "register"
IsLogin(w) == req[w].kind = "login"

NoRequest == [kind |-> "none", name |-> "", email |-> "", password |-> <<>>]
Requests ==
    {RegisterRequest(n, e, pw) : n \in Names, e \in Emails, pw \in RegisterPasswords}
    \cup {LoginRequest(e, pw) : e \in Emails, pw \in Passwords}

\* raise HTTPException(status_code, detail); an exception that is no
\* HTTPException is answered 500 "Internal Server Error".
HTTPException(status, detail) ==
    [status |-> status, detail |-> detail, body |-> None]
InternalServerError == HTTPException(500, "Internal Server Error")
EmailAlreadyRegistered == HTTPException(400, "Email already registered")
InvalidCredentials == HTTPException(401, "Invalid credentials")

LoginResponse(token, name, email) ==
    [status |-> 200, detail |-> "",
     body |-> [token |-> token, name |-> name, email |-> email]]

AuthUser(name, email, password_hash, salt, created_at, updated_at) ==
    [name |-> name, email |-> email, password_hash |-> password_hash,
     salt |-> salt, created_at |-> created_at, updated_at |-> updated_at]

\* The filter key and the $set document of the two session upserts.
RegisterSessionKey(id) == id

\* Mutant of LoginSessionKey: the key without str(), the ObjectId itself.
LoginSessionKeyRaw(u) == u._id

LoginSessionKey(u) == Str(u._id)
SessionSet(key, token, t) ==
    [user_id |-> key, token |-> token, created_at |-> t]

\* ------------------------------------------------------------------- Init
Init ==
    /\ db \in {DbHandle, None}
    /\ authuser = <<>>
    /\ session = <<>>
    /\ pc = [w \in Workers |-> "idle"]
    /\ req = [w \in Workers |-> NoRequest]
    /\ user = [w \in Workers |-> None]
    /\ sid = [w \in Workers |-> None]
    /\ upd = [w \in Workers |-> None]
    /\ resp = [w \in Workers |-> None]
    /\ inflight = [w \in Workers |-> {}]

\* The handler of worker w ends by sending response r.
Respond(w, r) ==
    /\ pc' = [pc EXCEPT ![w] = "done"]
    /\ resp' = [resp EXCEPT ![w] = r]

\* The routing layer hands a validated request to a free worker.  Workers
\* are interchangeable: the k-th request is served by worker k.
Receive(w) ==
    /\ pc[w] = "idle"
    /\ \A v \in Workers : v < w => pc[v] # "idle"
    /\ \E r \in Requests :
        /\ req' = [req EXCEPT ![w] = r]
        /\ pc' = [pc EXCEPT ![w] =
                    IF r.kind = "register" THEN "reg_find" ELSE "login_find"]
    /\ inflight' = [inflight EXCEPT ![w] =
            {v \in Workers : IsRegister(v) /\ pc[v] \notin {"idle", "done"}}]
    /\ UNCHANGED <<db, authuser, session, user, sid, upd, resp>>


\* Mutant of RegExisting: the existence check skipped.
RegExistingSkipped(email) == <<>>

\* --------------------------------------------- register (main.py 105-128)
\* existing = list(db["authuser"].find({"email": payload.email})) if db else []
RegExisting(email) == IF db # None THEN Find(authuser, email) ELSE <<>>


\* Mutant of StoreCallRaises: the failing handler takes back the credential
\* record it has inserted.
StoreCallRaisesRollback(w) ==
    /\ Respond(w, InternalServerError)
    /\ authuser' = SelectSeq(authuser, LAMBDA d : d._id # ObjectId(w))
    /\ UNCHANGED session

\* A store call of worker w raises: the exception leaves the handler, which
\* undoes nothing, and the worker answers 500.
StoreCallRaises(w) ==
    /\ Respond(w, InternalServerError)
    /\ UNCHANGED <<authuser, session>>

\* Lines 108-119: the existence check, then the salt, the hash and the record.
RegFind(w) ==
    /\ pc[w] = "reg_find"
    /\ \/ /\ db # None
          /\ StoreCallRaises(w)
          /\ UNCHANGED user
       \/ /\ RegExisting(req[w].email) # <<>>
          /\ Respond(w, EmailAlreadyRegistered)
          /\ UNCHANGED <<authuser, session, user>>
       \/ /\ RegExisting(req[w].email) = <<>>
          /\ LET h == hash_password(req[w].password, token_hex(w))
             IN  user' = [user EXCEPT ![w] =
                     AuthUser(req[w].name, req[w].email, h[2], h[1],
                              utcnow(w, 1), utcnow(w, 2))]
          /\ pc' = [pc EXCEPT ![w] = "reg_insert"]
          /\ UNCHANGED <<authuser, session, resp>>
    /\ UNCHANGED <<db, req, sid, upd, inflight>>


\* Mutant of RegInsert: the insert looks for the email once more and answers
\* 400 when a record with it has appeared since the check.
RegInsertRechecked(w) ==
    /\ pc[w] = "reg_insert"
    /\ \/ /\ StoreCallRaises(w)
          /\ UNCHANGED <<sid, upd>>
       \/ /\ db # None
          /\ Find(authuser, req[w].email) # <<>>
          /\ Respond(w, EmailAlreadyRegistered)
          /\ UNCHANGED <<authuser, session, sid, upd>>
       \/ /\ db # None
          /\ Find(authuser, req[w].email) = <<>>
          /\ authuser' = CreateDocument(authuser, user[w], w)
          /\ sid' = [sid EXCEPT ![w] = RegisterSessionKey(CreateDocumentId(w))]
          /\ upd' = [upd EXCEPT ![w] =
                SessionSet(RegisterSessionKey(CreateDocumentId(w)),
                           token_urlsafe(w), utcnow(w, 3))]
          /\ pc' = [pc EXCEPT ![w] = "reg_upsert"]
          /\ UNCHANGED <<session, resp>>
    /\ UNCHANGED <<db, req, user, inflight>>

\* Lines 120-121 and the arguments of line 123: the insert, the token, the
\* $set document.  Without a database handle create_document cannot insert.
RegInsert(w) ==
    /\ pc[w] = "reg_insert"
    /\ \/ /\ StoreCallRaises(w)
          /\ UNCHANGED <<sid, upd>>
       \/ /\ db # None
          /\ authuser' = CreateDocument(authuser, user[w], w)
          /\ LET id == CreateDocumentId(w)
             IN  /\ sid' = [sid EXCEPT ![w] = RegisterSessionKey(id)]
                 /\ upd' = [upd EXCEPT ![w] =
                        SessionSet(RegisterSessionKey(id), token_urlsafe(w),
                                   utcnow(w, 3))]
          /\ pc' = [pc EXCEPT ![w] = "reg_upsert"]
          /\ UNCHANGED <<session, resp>>
    /\ UNCHANGED <<db, req, user, inflight>>

\* Lines 123-127: the session upsert.  (The handler gets here only with a
\* database handle: without one line 120 has raised.)
RegUpsert(w) ==
    /\ pc[w] = "reg_upsert"
    /\ \/ StoreCallRaises(w)
       \/ /\ session' = UpdateOneUpsert(session, sid[w], upd[w])
          /\ pc' = [pc EXCEPT ![w] = "reg_return"]
          /\ UNCHANGED <<authuser, resp>>
    /\ UNCHANGED <<db, req, user, sid, upd, inflight>>

\* Line 128.
RegisterResult(w) == LoginResponse(upd[w].token, user[w].name, user[w].email)

RegReturn(w) ==
    /\ pc[w] = "reg_return"
    /\ Respond(w, RegisterResult(w))
    /\ UNCHANGED <<db, authuser, session, req, user, sid, upd, inflight>>

\* ------------------------------------------------ login (main.py 131-144)
\* user = db["authuser"].find_one({"email": payload.email}) if db else None
LoginUser(email) == IF db # None THEN FindOne(authuser, email) ELSE None

\* Lines 133-138 and the arguments of line 139.
LoginFind(w) ==
    /\ pc[w] = "login_find"
    /\ \/ /\ db # None
          /\ StoreCallRaises(w)
          /\ UNCHANGED <<user, sid, upd>>
       \/ /\ LoginUser(req[w].email) = None
          /\ Respond(w, InvalidCredentials)
          /\ UNCHANGED <<authuser, session, user, sid, upd>>
       \/ /\ LoginUser(req[w].email) # None
          /\ LET u == LoginUser(req[w].email)
             IN  IF ~verify_password(req[w].password, u.salt, u.password_hash)
                 THEN /\ Respond(w, InvalidCredentials)
                      /\ UNCHANGED <<user, sid, upd>>
                 ELSE /\ user' = [user EXCEPT ![w] = u]
                      /\ sid' = [sid EXCEPT ![w] = LoginSessionKey(u)]
                      /\ upd' = [upd EXCEPT ![w] =
                            SessionSet(LoginSessionKey(u), token_urlsafe(w),
                                       utcnow(w, 1))]
                                  /\ pc' = [pc EXCEPT ![w] = "login_upsert"]
                      /\ UNCHANGED resp
          /\ UNCHANGED <<authuser, session>>
    /\ UNCHANGED <<db, req, inflight>>

\* Lines 139-143.
LoginUpsert(w) ==
    /\ pc[w] = "login_upsert"
    /\ \/ StoreCallRaises(w)
       \/ /\ session' = UpdateOneUpsert(session, sid[w], upd[w])
          /\ pc' = [pc EXCEPT ![w] = "login_return"]
          /\ UNCHANGED <<authuser, resp>>
    /\ UNCHANGED <<db, req, user, sid, upd, inflight>>


\* Mutant of LoginResult: the response carries a token other than the stored one.
LoginResultOtherToken(w) ==
    LoginResponse(token_urlsafe(0), user[w].name, user[w].email)

\* Line 144.
LoginResult(w) == LoginResponse(upd[w].token, user[w].name, user[w].email)

LoginReturn(w) ==
    /\ pc[w] = "login_return"
    /\ Respond(w, LoginResult(w))
    /\ UNCHANGED <<db, authuser, session, req, user, sid, upd, inflight>>

\* ------------------------------------------------------------------- Next
Next ==
    \E w \in Workers :
        \/ Receive(w)
        \/ RegFind(w)
        \/ RegInsert(w)
        \/ RegUpsert(w)
        \/ RegReturn(w)
        \/ LoginFind(w)
        \/ LoginUpsert(w)
        \/ LoginReturn(w)

Spec == Init /\ [][Next]_vars

\* ================================================================ claims
Succeeded(w) == pc[w] = "done" /\ resp[w].status = 200
HasSession(key) == Matches(session, key) # {}

\* The register call of worker w had ended before the request of worker v
\* arrived (requests are taken in the order of the workers).
Before(w, v) == w < v /\ w \notin inflight[v]

\* The session records that refer to the user with identifier id, by the
\* identifier or by its string form.
SessionsOfUser(id) ==
    {i \in 1..Len(session) : session[i].user_id \in {id, Str(id)}}

\* The worker whose register call inserted document d, and the password it
\* registered.
Registrar(d) == d._id.hex
RegisteredPassword(d) == req[Registrar(d)].password

\* C1: in every reachable state the session collection holds at most one
\* record per user_id key, and at most one record per user: register and
\* login address the same key for the same user.
C1_OneSessionPerUser ==
    /\ \A i, j \in 1..Len(session) :
          session[i].user_id = session[j].user_id => i = j
    /\ \A k \in 1..Len(authuser) :
          Cardinality(SessionsOfUser(authuser[k]._id)) <= 1

\* C1 witness: a register and a later login of the same user have both
\* succeeded and the user has its session record.
C1_Witness ==
    \E w, v \in Workers :
        /\ IsRegister(w) /\ Succeeded(w)
        /\ IsLogin(v) /\ Succeeded(v)
        /\ Before(w, v)
        /\ sid[w] = sid[v]
        /\ HasSession(sid[w])

\* Two register calls have been in flight at the same time.
overlap ==
    \E w, v \in Workers :
        /\ w < v /\ pc[v] # "idle"
        /\ IsRegister(w) /\ IsRegister(v)
        /\ ~Before(w, v)

NoSharedEmail ==
    \A i, j \in 1..Len(authuser) :
        authuser[i].email = authuser[j].email => i = j

\* The step of worker w that leaves position at.
Leaves(w, at) == pc[w] = at /\ pc'[w] # at

\* C2: a register call whose existence check finds a credential record with
\* its email answers 400 "Email already registered", and the step changes
\* neither collection; as long as no two register calls have overlapped, no
\* two credential records share an email.
C2_DuplicateEmail ==
    /\ [][\A w \in Workers :
            (/\ Leaves(w, "reg_find")
             /\ db # None
             /\ Find(authuser, req[w].email) # <<>>)
            => /\ authuser' = authuser
               /\ session' = session
               /\ resp'[w] \in {EmailAlreadyRegistered, InternalServerError}]_vars
    /\ [](~overlap => NoSharedEmail)

\* C2 witness: without any overlap of register calls, a second register call
\* with a registered email has been answered 400.
C2_Witness ==
    /\ ~overlap
    /\ Len(authuser) = 1
    /\ \E w \in Workers :
        /\ IsRegister(w) /\ pc[w] = "done"
        /\ resp[w] = EmailAlreadyRegistered
        /\ authuser[1].email = req[w].email

\* The credential record a login with this email is verified against.
Registered(email) == FindOne(authuser, email)

\* A login that has got past its lookup without the store call raising.
LoginAnswered(w) ==
    /\ IsLogin(w)
    /\ pc[w] \notin {"idle", "login_find"}
    /\ ~(pc[w] = "done" /\ resp[w] = InternalServerError /\ upd[w] = None)

TokenStored(t) == \E i \in 1..Len(session) : session[i].token = t

\* C3: a login with an email that has no credential record, and a login with
\* a registered email and a password other than the registered one, both
\* answer 401 "Invalid credentials", issue no token and leave the session
\* collection alone.
C3_InvalidCredentials ==
    \A w \in Workers :
        (/\ LoginAnswered(w)
         /\ \/ Registered(req[w].email) = None
            \/ req[w].password # RegisteredPassword(Registered(req[w].email)))
        => /\ resp[w] = InvalidCredentials
           /\ upd[w] = None
           /\ ~TokenStored(token_urlsafe(w))

\* The part of C3 that holds: whichever check rejects a login, the answer is
\* the same 401 "Invalid credentials" and no token is issued or stored.
C3_SameError ==
    \A w \in Workers :
        (IsLogin(w) /\ pc[w] = "done" /\ resp[w].status \notin {200, 500})
        => /\ resp[w] = InvalidCredentials
           /\ upd[w] = None
           /\ ~TokenStored(token_urlsafe(w))

\* C4: a login that is verified against the credential record of a
\* successful register succeeds if and only if its password equals the
\* registered one, and a successful login returns the stored name and email.
C4_LoginIffPassword ==
    \A w \in Workers :
        (/\ LoginAnswered(w)
         /\ Registered(req[w].email) # None
         /\ Succeeded(Registrar(Registered(req[w].email)))
         /\ Before(Registrar(Registered(req[w].email)), w))
        => LET d == Registered(req[w].email)
           IN  /\ (req[w].password = RegisteredPassword(d))
                     <=> (resp[w] # InvalidCredentials)
               /\ Succeeded(w) =>
                     /\ resp[w].body.name = d.name
                     /\ resp[w].body.email = d.email

\* C5: the insert step of a register call that has passed its existence
\* check does not look at the store again: it either raises or appends its
\* credential record, whatever the collection holds by then, and never
\* answers 400.
C5_CheckThenInsert ==
    [][\A w \in Workers :
          Leaves(w, "reg_insert")
          => \/ /\ resp'[w] = InternalServerError
                /\ authuser' = authuser
             \/ /\ pc'[w] = "reg_upsert"
                /\ Len(authuser') = Len(authuser) + 1
                /\ authuser'[Len(authuser')].email = req[w].email
                /\ authuser'[Len(authuser')]._id = ObjectId(w)]_vars

\* C5 witness: two register calls with the same email have both succeeded
\* and the store holds two credential records with that email.
C5_Witness ==
    \E w, v \in Workers :
        /\ w # v
        /\ IsRegister(w) /\ Succeeded(w)
        /\ IsRegister(v) /\ Succeeded(v)
        /\ req[w].email = req[v].email
        /\ \E i, j \in 1..Len(authuser) :
              /\ i # j
              /\ authuser[i].email = authuser[j].email
              /\ authuser[i]._id = ObjectId(w)
              /\ authuser[j]._id = ObjectId(v)

\* C6: a user_id that has a session record has one in every later state.
C6_SessionMonotone ==
    [][\A i \in 1..Len(session) :
          Matches(session', session[i].user_id) # {}]_vars

\* C6 witness: a user has a session record after its register, a rejected
\* login and a failed call have all ended.
C6_Witness ==
    \E w, v, x \in Workers :
        /\ IsRegister(w) /\ Succeeded(w) /\ HasSession(sid[w])
        /\ IsLogin(v) /\ pc[v] = "done" /\ resp[v] = InvalidCredentials
        /\ pc[x] = "done" /\ resp[x] = InternalServerError

\* The session upsert worker w is about to send, applied to collection coll.
Pending == {w \in Workers : pc[w] \in {"reg_upsert", "login_upsert"}}
Apply(coll, w) == UpdateOneUpsert(coll, sid[w], upd[w])

\* Two collections hold the same documents.
SameCollection(a, b) ==
    /\ Len(a) = Len(b)
    /\ \A d \in {a[i] : i \in 1..Len(a)} \cup {b[i] : i \in 1..Len(b)} :
          Cardinality({i \in 1..Len(a) : a[i] = d})
              = Cardinality({i \in 1..Len(b) : b[i] = d})

\* C7 as claimed: any upsert applied twice gives what it gives applied once,
\* and any two upserts give the same collection in either order, also when
\* they carry different tokens for the same user_id.
C7_IdempotentCommutative ==
    /\ \A w \in Pending :
          Apply(Apply(session, w), w) = Apply(session, w)
    /\ \A w, v \in Pending :
          SameCollection(Apply(Apply(session, w), v),
                         Apply(Apply(session, v), w))

\* C7 amended: upserts are idempotent, and two upserts commute when they
\* address different user_ids; two upserts for the same user_id leave the
\* token and timestamp of the one applied last.
C7_IdempotentCommuteAcrossUsers ==
    /\ \A w \in Pending :
          Apply(Apply(session, w), w) = Apply(session, w)
    /\ \A w, v \in Pending :
          IF sid[w] # sid[v]
          THEN SameCollection(Apply(Apply(session, w), v),
                              Apply(Apply(session, v), w))
          ELSE LET last == Apply(Apply(session, w), v)
               IN  /\ Cardinality(Matches(last, sid[v])) = 1
                   /\ \A i \in Matches(last, sid[v]) :
                         /\ last[i].token = upd[v].token
                         /\ last[i].created_at = upd[v].created_at

\* C7 witness: two upserts for different users are pending, one of them for
\* a user that already has a session record.
C7_Witness ==
    \E w, v \in Pending :
        /\ sid[w] # sid[v]
        /\ HasSession(sid[w])
        /\ ~HasSession(sid[v])

\* A credential record whose register call ended in a 500 after the insert.
Orphan(d) ==
    /\ pc[Registrar(d)] = "done"
    /\ resp[Registrar(d)] = InternalServerError

\* C8: a register call that fails at its session upsert leaves its credential
\* record in the store and writes no session record (nothing is rolled
\* back); from then on a register call that finds that record answers 400,
\* and a login with the registered password passes verification and its
\* upsert creates the session record of that user.
C8_NoRollback ==
    /\ [][\A w \in Workers :
            (Leaves(w, "reg_upsert") /\ pc'[w] = "done")
            => /\ resp'[w] = InternalServerError
               /\ authuser' = authuser
               /\ session' = session]_vars
    /\ [](\A w \in Workers :
            (IsRegister(w) /\ pc[w] = "done" /\ sid[w] # None)
            => /\ \E i \in 1..Len(authuser) : authuser[i]._id = ObjectId(w)
               /\ resp[w] = InternalServerError
                     => ~TokenStored(token_urlsafe(w)))
    /\ [][\A v \in Workers :
            (/\ Leaves(v, "reg_find")
             /\ \E i \in 1..Len(authuser) :
                   Orphan(authuser[i]) /\ authuser[i].email = req[v].email)
            => resp'[v] \in {EmailAlreadyRegistered, InternalServerError}]_vars
    /\ [][\A v \in Workers :
            (/\ Leaves(v, "login_find")
             /\ Registered(req[v].email) # None
             /\ Orphan(Registered(req[v].email))
             /\ req[v].password = RegisteredPassword(Registered(req[v].email)))
            => \/ resp'[v] = InternalServerError
               \/ /\ pc'[v] = "login_upsert"
                  /\ sid'[v] = Str(Registered(req[v].email)._id)]_vars
    /\ [][\A v \in Workers :
            (Leaves(v, "login_upsert") /\ pc'[v] = "login_return")
            => \E i \in 1..Len(session') :
                  /\ session'[i].user_id = sid[v]
                  /\ session'[i].token = token_urlsafe(v)]_vars

\* C8 witness: a register call failed after its insert, a second register
\* call with that email was answered 400, and a login with the registered
\* password succeeded and the user has the session record it wrote.
C8_Witness ==
    \E w, v, x \in Workers :
        /\ IsRegister(w) /\ pc[w] = "done" /\ sid[w] # None
        /\ resp[w] = InternalServerError
        /\ IsRegister(v) /\ pc[v] = "done" /\ resp[v] = EmailAlreadyRegistered
        /\ req[v].email = req[w].email
        /\ IsLogin(x) /\ Succeeded(x) /\ sid[x] = sid[w]
        /\ req[x].password = req[w].password
        /\ \E i \in 1..Len(session) :
              /\ session[i].user_id = sid[w]
              /\ session[i].token = resp[x].body.token

\* C9: when the store is unavailable every call ends in a 500: no login is
\* answered 401, and no register call goes on past its existence check.
C9_StoreUnavailable ==
    db = None =>
        \A w \in Workers :
            /\ pc[w] = "done" => resp[w] = InternalServerError
            /\ pc[w] # "reg_insert"

\* The token the session record with this key holds.
SessionToken(coll, key) ==
    LET i == CHOOSE k \in Matches(coll, key) : TRUE IN coll[i].token

Returning == {w \in Workers : pc[w] \in {"reg_return", "login_return"}}

\* C10 as claimed: whenever a call is about to return its token, the session
\* record of its user holds that token.
C10_ReturnedTokenIsStored ==
    \A w \in Returning :
        /\ HasSession(sid[w])
        /\ SessionToken(session, sid[w]) = upd[w].token

\* C10 amended: the upsert of a call stores the call's fresh token in the
\* user's session record and leaves the token stored before in no session
\* record; the call returns the token it stored; when it returns, the record
\* holds that token or the token of another call for the same user whose
\* upsert came later.
C10_TokenStoredAtUpsert ==
    /\ [][\A w \in Pending :
            (pc'[w] \in {"reg_return", "login_return"})
            => /\ Cardinality(Matches(session', sid[w])) = 1
               /\ SessionToken(session', sid[w]) = token_urlsafe(w)
               /\ \A i \in Matches(session, sid[w]) :
                     /\ session[i].token # token_urlsafe(w)
                     /\ \A j \in 1..Len(session') :
                           session'[j].token # session[i].token]_vars
    /\ [](\A w \in Workers :
            Succeeded(w) => resp[w].body.token = token_urlsafe(w))
    /\ [](\A w \in Returning :
            /\ HasSession(sid[w])
            /\ \/ SessionToken(session, sid[w]) = upd[w].token
               \/ \E v \in Workers \ {w} :
                     /\ sid[v] = sid[w]
                     /\ pc[v] \in {"reg_return", "login_return", "done"}
                     /\ SessionToken(session, sid[w]) = upd[v].token)

\* C10 witness: a login is about to return a token that a concurrent login
\* of the same user has already overwritten.
C10_Witness ==
    \E w \in Returning :
        /\ IsLogin(w)
        /\ HasSession(sid[w])
        /\ SessionToken(session, sid[w]) # upd[w].token

====
